---- MODULE Spec2Model ----
(***************************************************************************)
(* The Formidable form-state component of ember-formidable.                *)
(*                                                                         *)
(* The newest revision of the component (async/await, the one with         *)
(* getDefaultValue, unregister and validateOn/revalidateOn) is the class   *)
(* at src/test-app/tests/integration/components/formidable-rollback-test   *)
(* .gts:295-940; specification Spec models it.                             *)
(*                                                                         *)
(* Values.  A JavaScript value is an atom (a string of Atoms; "undefined"  *)
(* is undefined, "" is the empty string, the one falsy value that is not   *)
(* nil) or a nested object {x: atom}.  Nested objects live in `heap`, so   *)
(* that two holders of the same object are told from two holders of equal  *)
(* copies.  A values object has the literal keys "a" (an atom field), "n"  *)
(* (a nested object) and "n.x": the component stores a dotted field path   *)
(* as a literal key (this.values[field] = value) and reads it back as a    *)
(* path (lodash _set in parsedValues, Ember get).                          *)
(*                                                                         *)
(* Parsing.  formatValue, which the parsedValues getter of this revision   *)
(* calls, is imported from a file that is not part of the sources; it is   *)
(* modelled by the code it was extracted from, the body of the parsedValues *)
(* getter of src/ember-formidable/src/components/formidable/index.ts.  A   *)
(* converted value is an atom that starts with "#" (a number, a boolean, a *)
(* date) or with "f(" (what the application's formatter returned).         *)
(*                                                                         *)
(* Asynchrony.  A handler runs without interruption up to the point where  *)
(* it awaits the external validator.  The validator's settling is a step   *)
(* of its own, which runs the rest of validate(); a submit() that awaits   *)
(* that validate() continues in a later job of the same queue, after the   *)
(* continuations of the validator calls that had settled before it and     *)
(* before any new event is handled.                                        *)
(***************************************************************************)
EXTENDS Integers, Sequences, FiniteSets, TLC

VARIABLES
    values,             \* this.values: the live values bag
    rollbackValues,     \* this.rollbackValues: the rollback snapshot
    heap,               \* the nested objects values and rollbackValues refer to
    errors,             \* this.errors
    dirtyFields,        \* this.dirtyFields
    parsers,            \* this.parsers: the parse directives register recorded
    listeners,          \* per bound element: the listeners on it, whether the
                        \* teardown of its register call has run, and whether
                        \* unregister has marked it
    isSubmitted,
    isSubmitting,
    isValidating,
    isSubmitSuccessful, \* "unset" | "true" | "false"
    submitCount,
    args,               \* this.args: which callbacks and trigger lists are configured
    calls,              \* validator calls that have not settled, in request order
    resuming,           \* submit() calls and event handlers queued to continue after
                        \* the validate() they await
    last                \* the operation that made the last step, and what it did

vars == <<values, rollbackValues, heap, errors, dirtyFields, parsers, listeners, isSubmitted,
          isSubmitting, isValidating, isSubmitSuccessful, submitCount, args,
          calls, resuming, last>>

\* ------------------------------------------------------------------ bounds

\* submit attempts in one behaviour
MaxSubmits == 2
\* validator calls in flight at once
MaxCalls == 2
\* error records setError may pile up on one field
MaxErrors == 2

\* ------------------------------------------------------------------ values

Undefined == "undefined"
Atoms == {Undefined, "", "D", "C", "5"}
IsNil(v) == v = Undefined
Truthy(v) == v \notin {Undefined, "", "#0", "#NaN", "#false"}

TopKeys == {"a", "n", "n.x"}
Fields == {"a", "n", "n.x"}
NoField == "none"
\* the key of an element that register was given neither a field path nor a
\* name attribute for
NoName == "(no name)"
\* how the application was built: assert() of @ember/debug throws in a debug
\* build and is removed from a production build
Builds == {"debug", "production"}
Cells == {1, 2}
\* the nested object of the values object the application passed as @values
ExternalCell == 3
HeapCells == Cells \cup {ExternalCell}

Absent == [kind |-> "absent", a |-> "-", ref |-> 0]
AtomSlot(v) == [kind |-> "atom", a |-> v, ref |-> 0]
RefSlot(c) == [kind |-> "ref", a |-> "-", ref |-> c]
Slots == {Absent} \cup {AtomSlot(v) : v \in Atoms} \cup {RefSlot(c) : c \in Cells}

\* What a reader of a value sees: an atom, or the object {x: atom}.
AtomView(v) == [k |-> "atom", a |-> v, x |-> "-"]
ObjView(v) == [k |-> "obj", a |-> "-", x |-> v]
View(slot, hp) ==
    CASE slot.kind = "absent" -> AtomView(Undefined)
      [] slot.kind = "atom" -> AtomView(slot.a)
      [] slot.kind = "ref" -> ObjView(hp[slot.ref])

\* obj[key] of a values object, as the expression `obj[key] ?? ...` sees it.
IsNilSlot(slot) == slot.kind = "absent" \/ (slot.kind = "atom" /\ IsNil(slot.a))

\* Ember get(obj, path) on an object of views {a, n}: a dotted path is walked
\* key by key, a literal key holding a dot is never looked up.
get(o, path) ==
    CASE path = "a" -> o.a
      [] path = "n" -> o.n
      [] path = "n.x" -> IF o.n.k = "obj" THEN AtomView(o.n.x) ELSE AtomView(Undefined)

\* The rollback snapshot as get() walks it.
SnapshotView(rb, hp) == [a |-> View(rb["a"], hp), n |-> View(rb["n"], hp)]

\* A copy that keeps the nested object of its source.
cloneShallowObj(obj) == obj

\* lodash _cloneDeep of a values object: a nested object is copied into the cell
\* the source does not use.
FreshCell(obj) == CHOOSE c \in Cells : obj["n"].kind = "ref" => c # obj["n"].ref
cloneDeepObj(obj) ==
    [obj EXCEPT !["n"] = IF obj["n"].kind = "ref" THEN RefSlot(FreshCell(obj)) ELSE @]
cloneDeepHeap(obj, hp) ==
    IF obj["n"].kind = "ref"
    THEN [hp EXCEPT ![FreshCell(obj)] = hp[obj["n"].ref]]
    ELSE hp

\* Cells nobody refers to any more hold nothing the program can read; the
\* application keeps the object it passed.
Collect(vals, rb, hp) ==
    [c \in HeapCells |->
        IF c = ExternalCell
           \/ (vals["n"].kind = "ref" /\ vals["n"].ref = c)
           \/ (rb["n"].kind = "ref" /\ rb["n"].ref = c)
        THEN hp[c] ELSE Undefined]

\* ----------------------------------------------------------------- parsing

\* An entry of this.parsers: undefined until register has run for the field,
\* then {valueAsNumber, valueAsDate, valueAsBoolean, valueFormat}, each set or not.
Parser(valueFormat, valueAsNumber, valueAsDate, valueAsBoolean) ==
    [registered |-> TRUE, valueFormat |-> valueFormat, valueAsNumber |-> valueAsNumber,
     valueAsDate |-> valueAsDate, valueAsBoolean |-> valueAsBoolean]
Unregistered ==
    [registered |-> FALSE, valueFormat |-> FALSE, valueAsNumber |-> FALSE,
     valueAsDate |-> FALSE, valueAsBoolean |-> FALSE]
NoDirective == Parser(FALSE, FALSE, FALSE, FALSE)

\* An object where a primitive is converted.
ObjectAtom == "[object Object]"

\* +value
ToNumber(v) == CASE v = "" -> "#0" [] v = "5" -> "#5" [] OTHER -> "#NaN"
\* new Date(value)
ToDate(v) == IF v = "5" THEN "#Date(5)" ELSE "#InvalidDate"
\* Boolean(value)
ToBoolean(v) == IF Truthy(v) THEN "#true" ELSE "#false"
\* valueFormat(value): the formatter the application passed
valueFormat(v) ==
    CASE v = Undefined -> "f(undefined)"
      [] v = "" -> "f()"
      [] v = "D" -> "f(D)"
      [] v = "C" -> "f(C)"
      [] v = "5" -> "f(5)"
      [] OTHER -> "f(object)"

\* The directive the parsed-values view applies: the first that is set of
\* valueFormat, valueAsNumber, valueAsDate, valueAsBoolean.
parsedDirective(parser) ==
    IF ~parser.registered THEN "identity"
    ELSE IF parser.valueFormat THEN "valueFormat"
    ELSE IF parser.valueAsNumber THEN "valueAsNumber"
    ELSE IF parser.valueAsDate THEN "valueAsDate"
    ELSE IF parser.valueAsBoolean THEN "valueAsBoolean"
    ELSE "identity"

\* formatValue(value, parser): the value as the parsed-values view shows it
formatValue(value, parser) ==
    CASE parsedDirective(parser) = "valueFormat" -> valueFormat(value)
      [] parsedDirective(parser) = "valueAsNumber" -> ToNumber(value)
      [] parsedDirective(parser) = "valueAsDate" -> ToDate(value)
      [] parsedDirective(parser) = "valueAsBoolean" -> ToBoolean(value)
      [] OTHER -> value

\* The directive setValue applies before it writes into a record (isModel): the
\* first that is set of valueAsNumber, valueAsDate, valueAsBoolean, valueFormat.
modelDirective(parser) ==
    IF ~parser.registered THEN "identity"
    ELSE IF parser.valueAsNumber THEN "valueAsNumber"
    ELSE IF parser.valueAsDate THEN "valueAsDate"
    ELSE IF parser.valueAsBoolean THEN "valueAsBoolean"
    ELSE IF parser.valueFormat THEN "valueFormat"
    ELSE "identity"

\* The value setValue(key, value) hands to this.values.set(key, _) of a record:
\* +(value ?? ''), new Date(`${value}`), Boolean(value) or valueFormat(value).
modelValue(value, parser) ==
    CASE modelDirective(parser) = "valueAsNumber" ->
            ToNumber(IF IsNil(value) THEN "" ELSE value)
      [] modelDirective(parser) = "valueAsDate" -> ToDate(value)
      [] modelDirective(parser) = "valueAsBoolean" -> ToBoolean(value)
      [] modelDirective(parser) = "valueFormat" -> valueFormat(value)
      [] OTHER -> value

\* formatValue of what a reader sees under a key of the values bag
formatView(view, parser) ==
    IF parsedDirective(parser) = "identity" THEN view
    ELSE AtomView(formatValue(IF view.k = "atom" THEN view.a ELSE ObjectAtom, parser))

\* ------------------------------------------------------------------ errors

\* An entry of the error map: absent, present and undefined, a sequence of error
\* records, or an object {x: ...}; kkind/kseq are the property x of the entry.
EAbsent == [kind |-> "absent", seq |-> <<>>, kkind |-> "absent", kseq |-> <<>>]
EUndef == [kind |-> "undef", seq |-> <<>>, kkind |-> "absent", kseq |-> <<>>]
ESeq(s) == [kind |-> "seq", seq |-> s, kkind |-> "absent", kseq |-> <<>>]
EObj(s) == [kind |-> "obj", seq |-> <<>>, kkind |-> "seq", kseq |-> s]
NoErrors == [k \in TopKeys |-> EAbsent]

\* lodash _isEmpty of an object: it has no own key.
isEmpty(obj) == \A k \in TopKeys : obj[k].kind = "absent"

\* lodash castPath: a dotted path is one key when the object has that literal key.
IsKey(obj, path) == path # "n.x" \/ obj["n.x"].kind # "absent"

\* lodash _unset(errors, path)
unset(obj, path) ==
    IF IsKey(obj, path) THEN [obj EXCEPT ![path] = EAbsent]
    ELSE IF obj["n"].kind \in {"obj", "seq"}
         THEN [obj EXCEPT !["n"].kkind = "absent", !["n"].kseq = <<>>]
         ELSE obj

\* Ember get(validation, path): the value found, undefined when there is none.
getError(obj, path) ==
    IF path # "n.x"
    THEN (IF obj[path].kind = "absent" THEN EUndef ELSE obj[path])
    ELSE IF obj["n"].kind \in {"obj", "seq"} /\ obj["n"].kkind = "seq"
         THEN ESeq(obj["n"].kseq)
         ELSE EUndef

\* lodash _set(errors, path, value): value is undefined or a sequence when the
\* path is walked.
set(obj, path, value) ==
    IF IsKey(obj, path) THEN [obj EXCEPT ![path] = value]
    ELSE IF obj["n"].kind \in {"obj", "seq"}
         THEN [obj EXCEPT !["n"].kkind = value.kind, !["n"].kseq = value.seq]
         ELSE [obj EXCEPT !["n"] = [kind |-> "obj", seq |-> <<>>,
                                    kkind |-> value.kind, kseq |-> value.seq]]

NoDirty == [f \in Fields |-> "absent"]

\* An error record {type, message, value}; the value it quotes is left out.
ErrorRecord(type, message) == [type |-> type, message |-> message]

\* ------------------------------------------------------------------- store

\* The fields of the component that the store methods read and write.
Store == [values |-> values, rollbackValues |-> rollbackValues, heap |-> heap,
          errors |-> errors, dirtyFields |-> dirtyFields, isSubmitted |-> isSubmitted,
          parsers |-> parsers]

SetStore(s) ==
    /\ values' = s.values
    /\ rollbackValues' = s.rollbackValues
    /\ heap' = Collect(s.values, s.rollbackValues, s.heap)
    /\ errors' = s.errors
    /\ dirtyFields' = s.dirtyFields
    /\ isSubmitted' = s.isSubmitted
    /\ parsers' = s.parsers

\* get parsedValues(): Object.entries(this.values) in insertion order ("a", "n",
\* then "n.x"), each written with _set(obj, key, formatValue(value,
\* this.parsers[key])): the directive is looked up under the literal key.
\* _set(obj, "n.x", v) walks the path: it creates obj.n when obj.n is not an
\* object, and otherwise writes x into obj.n, which is the very object
\* this.values.n holds.
parsedValues(s) ==
    [a |-> formatView(View(s.values["a"], s.heap), s.parsers["a"]),
     n |-> IF s.values["n.x"].kind # "absent"
           THEN ObjView(formatView(View(s.values["n.x"], s.heap), s.parsers["n.x"]).a)
           ELSE formatView(View(s.values["n"], s.heap), s.parsers["n"])]

\* The store once parsedValues has been read.
touch(s) ==
    IF /\ s.values["n.x"].kind # "absent"
       /\ s.values["n"].kind = "ref"
       /\ parsedDirective(s.parsers["n"]) = "identity"
    THEN [s EXCEPT !.heap[s.values["n"].ref] =
            formatView(View(s.values["n.x"], s.heap), s.parsers["n.x"]).a]
    ELSE s

getValue(s, field) == get(parsedValues(s), field)
getDefaultValue(s, field) == get(SnapshotView(s.rollbackValues, s.heap), field)

\* get isPristine(): _isEmpty(this.dirtyFields), true when the object has no key
isPristine(s) == \A f \in Fields : s.dirtyFields[f] = "absent"
\* get isDirty(): !this.isPristine
isDirty(s) == ~isPristine(s)

\* get isValid(): _isEmpty(this.errors)
isValid(errs) == isEmpty(errs)

\* lodash _isEmpty of an entry of the error map: undefined, an empty sequence
\* and an object without keys are empty.
isEmptyEntry(e) ==
    CASE e.kind \in {"absent", "undef"} -> TRUE
      [] e.kind = "seq" -> e.seq = <<>>
      [] OTHER -> e.kkind = "absent"

\* getFieldState(name): the entries are looked up under the literal key.
getFieldState(s, name) ==
    [isDirty |-> s.dirtyFields[name] = "true",
     isPristine |-> s.dirtyFields[name] # "true",
     isInvalid |-> ~isEmptyEntry(s.errors[name]),
     error |-> s.errors[name]]

\* The value rollback(field) writes: defaultValue ?? this.rollbackValues[field] ?? undefined
rollbackTarget(s, field, defaultValue) ==
    IF ~IsNil(defaultValue) THEN AtomSlot(defaultValue)
    ELSE IF ~IsNilSlot(s.rollbackValues[field]) THEN s.rollbackValues[field]
    ELSE AtomSlot(Undefined)

\* if (defaultValue) this.rollbackValues[field] = defaultValue
rollbackSnapshot(s, field, defaultValue) ==
    IF Truthy(defaultValue)
    THEN [s.rollbackValues EXCEPT ![field] = AtomSlot(defaultValue)]
    ELSE s.rollbackValues

\* A single-field rollback that drops the whole error map and dirty set.
rollbackFieldClearingAll(s, field, keepError, keepDirty, defaultValue) ==
    [s EXCEPT
        !.values = [s.values EXCEPT ![field] = rollbackTarget(s, field, defaultValue)],
        !.rollbackValues = rollbackSnapshot(s, field, defaultValue),
        !.errors = IF keepError THEN @ ELSE NoErrors,
        !.dirtyFields = IF keepDirty THEN @ ELSE NoDirty]

\* rollback(field, {keepError, keepDirty, defaultValue}), the single-field branch
rollbackField(s, field, keepError, keepDirty, defaultValue) ==
    [s EXCEPT
        !.values = [s.values EXCEPT ![field] = rollbackTarget(s, field, defaultValue)],
        !.rollbackValues = rollbackSnapshot(s, field, defaultValue),
        !.errors = IF keepError THEN @ ELSE unset(@, field),
        !.dirtyFields = IF keepDirty THEN @ ELSE [@ EXCEPT ![field] = "absent"]]

\* A whole-form rollback that ignores keepError and keepDirty.
rollbackFormIgnoringKeep(s, keepError, keepDirty) ==
    [s EXCEPT
        !.values = cloneDeepObj(s.rollbackValues),
        !.heap = cloneDeepHeap(s.rollbackValues, s.heap),
        !.errors = NoErrors,
        !.dirtyFields = NoDirty,
        !.isSubmitted = FALSE]

\* A whole-form rollback that flips isSubmitted instead of resetting it.
rollbackFormTogglingSubmitted(s, keepError, keepDirty) ==
    [s EXCEPT
        !.values = cloneDeepObj(s.rollbackValues),
        !.heap = cloneDeepHeap(s.rollbackValues, s.heap),
        !.errors = IF keepError THEN @ ELSE NoErrors,
        !.dirtyFields = IF keepDirty THEN @ ELSE NoDirty,
        !.isSubmitted = ~s.isSubmitted]

\* rollback(undefined, {keepError, keepDirty}), the whole-form branch
rollbackForm(s, keepError, keepDirty) ==
    [s EXCEPT
        !.values = cloneDeepObj(s.rollbackValues),
        !.heap = cloneDeepHeap(s.rollbackValues, s.heap),
        !.errors = IF keepError THEN @ ELSE NoErrors,
        !.dirtyFields = IF keepDirty THEN @ ELSE NoDirty,
        !.isSubmitted = FALSE]

\* Object.keys(this.invalidFields): every key of this.errors is written with
\* _set(invalid, key, true), which walks a dotted key, so the keys are top-level.
invalidFieldKeys(errs) ==
    {k \in {"a", "n"} :
        \/ k = "a" /\ errs["a"].kind # "absent"
        \/ k = "n" /\ (errs["n"].kind # "absent" \/ errs["n.x"].kind # "absent")}

\* rollbackInvalid(context) after `await this.validate()`:
\* for (const field of Object.keys(this.invalidFields)) this.rollback(field, context)
rollbackInvalid(s, keepError, keepDirty) ==
    LET a == IF "a" \in invalidFieldKeys(s.errors)
             THEN rollbackField(s, "a", keepError, keepDirty, Undefined) ELSE s
    IN IF "n" \in invalidFieldKeys(s.errors)
       THEN rollbackField(a, "n", keepError, keepDirty, Undefined) ELSE a

rollback(s, field, keepError, keepDirty, defaultValue) ==
    IF field # NoField
    THEN rollbackField(s, field, keepError, keepDirty, defaultValue)
    ELSE rollbackForm(s, keepError, keepDirty)

\* dirtyField(field): this.dirtyFields[field] = !_isEqual(get(rollbackValues, field), get(parsedValues, field))
\* The snapshot is read first, before the parsedValues getter runs.
dirtyField(s, field) ==
    [touch(s) EXCEPT
        !.dirtyFields[field] =
            IF getDefaultValue(s, field) = getValue(s, field)
            THEN "false" ELSE "true"]

\* A setValue that leaves the write to the end of the validation it starts.
setValueAfterValidation(s, field, value, shouldDirty) ==
    IF shouldDirty THEN dirtyField(s, field) ELSE s

\* A setValue that computes the dirty entry on every write.
setValueAlwaysDirty(s, field, value, shouldDirty) ==
    dirtyField([s EXCEPT !.values[field] = AtomSlot(value)], field)

\* setValue(field, value, {shouldDirty}) up to the validation it may start
setValue(s, field, value, shouldDirty) ==
    LET written == [s EXCEPT !.values[field] = AtomSlot(value)]
    IN IF shouldDirty THEN dirtyField(written, field) ELSE written

\* A setError that replaces the errors of the field.
setErrorReplacing(s, field, message) ==
    [touch(s) EXCEPT !.errors[field] = ESeq(<<ErrorRecord("custom", message)>>)]

\* setError(field, message) with a bare message string
setError(s, field, message) ==
    LET t == touch(s)
        old == IF t.errors[field].kind = "seq" THEN t.errors[field].seq ELSE <<>>
    IN [t EXCEPT !.errors[field] =
            ESeq(Append(old, ErrorRecord("custom", message)))]

\* lodash _unset(bag, path) on a values bag: the literal key is deleted when the
\* bag has it; otherwise the path is walked and x is deleted from the object
\* under "n" (an object without x reads like one whose x is undefined).
unsetValue(bag, hp, path) ==
    IF bag[path].kind # "absent" THEN [bag |-> [bag EXCEPT ![path] = Absent], heap |-> hp]
    ELSE IF path = "n.x" /\ bag["n"].kind = "ref"
         THEN [bag |-> bag, heap |-> [hp EXCEPT ![bag["n"].ref] = Undefined]]
         ELSE [bag |-> bag, heap |-> hp]

\* unregister(field, {keepError, keepDirty, keepValue, keepDefaultValue}) once
\* the element has been found and marked
unregister(s, field, keepError, keepDirty, keepValue, keepDefaultValue) ==
    LET e == IF keepError THEN s ELSE [s EXCEPT !.errors = unset(@, field)]
        d == IF keepDirty THEN e ELSE [e EXCEPT !.dirtyFields[field] = "absent"]
        v == IF keepValue THEN d
             ELSE [d EXCEPT !.values = unsetValue(d.values, d.heap, field).bag,
                            !.heap = unsetValue(d.values, d.heap, field).heap]
    IN IF keepDefaultValue THEN v
       ELSE [v EXCEPT !.rollbackValues = unsetValue(v.rollbackValues, v.heap, field).bag,
                      !.heap = unsetValue(v.rollbackValues, v.heap, field).heap]

\* clearError(field): if (this.errors[field]) _unset(this.errors, field)
clearError(s, field) ==
    IF s.errors[field].kind \in {"seq", "obj"}
    THEN [s EXCEPT !.errors = unset(@, field)]
    ELSE s

\* clearErrors()
clearErrors(s) == [s EXCEPT !.errors = NoErrors]

\* --------------------------------------------------------------- component

WriteValues == {"C", "D"}
DefaultValues == {Undefined, "", "C"}

\* this.args of the rendered component (whether a validator, an onSubmit callback
\* and a handler are passed, and the trigger lists), together with what the
\* application around it does: `fields`, the field paths its template binds and
\* its code names in api calls, `uses`, the api operations it calls,
\* `directives`, the parse directives its template registers fields with, and
\* `writes`, the values it writes.  `isModel` tells whether @values is a record
\* of the data store (this.args.values instanceof Model) or a plain object.
\* `callbacks` holds the events for which the template passes register a
\* callback of the field (onChange=, onBlur=, onFocus=).  `updateEvents` is the
\* trigger list of the released component (@updateEvents, ['onSubmit'] by
\* default).
Args(fields, uses, validator, onSubmit, handler) ==
    [fields |-> fields, uses |-> uses, validator |-> validator, onSubmit |-> onSubmit,
     handler |-> handler, handleOn |-> {"onSubmit"},
     validateOn |-> {"onBlur", "onSubmit"},
     revalidateOn |-> {"onChange", "onSubmit"},
     directives |-> {NoDirective}, writes |-> WriteValues, isModel |-> FALSE,
     callbacks |-> {}, updateEvents |-> {"onSubmit"}]

\* The directives a template registers a field with: none, one of the four, or
\* a formatter together with valueAsNumber.
Directives ==
    {NoDirective,
     Parser(TRUE, FALSE, FALSE, FALSE),
     Parser(FALSE, TRUE, FALSE, FALSE),
     Parser(FALSE, FALSE, TRUE, FALSE),
     Parser(FALSE, FALSE, FALSE, TRUE),
     Parser(TRUE, TRUE, FALSE, FALSE)}

\* The applications the component is rendered in:
\*  - a one-field form that validates, submits and rolls back, with a validator
\*    and a handler;
\*  - a one-field form that is edited and validated field by field;
\*  - a form with a top-level and a nested field, edited, rolled back and given
\*    errors by the application;
\*  - a form that binds an object and a path inside it;
\*  - a form with a nested field that is written, submitted to an onSubmit
\*    callback or a handler, and rolled back;
\*  - a one-field form whose field is registered with a parse directive and
\*    written with text and with digits;
\*  - a form whose nested field is registered with valueAsNumber;
\*  - a form with a top-level and a nested field that is validated, as a whole
\*    and field by field, and given errors by the application;
\*  - a one-field form with a validator that receives change, blur and focus
\*    events and is submitted, with the default trigger lists and with lists
\*    of its own;
\*  - a form that writes its two fields and unregisters them;
\*  - a form whose template also binds an input that has no name;
\*  - a form that is only submitted, with both an onSubmit callback and a
\*    handler, and with a handler that is not called on submit;
\*  - a form whose input has callbacks of its own for change and focus events,
\*    and a handler that is called on change and blur events;
\*  - a form whose two inputs are edited and that rolls back the invalid ones.
ArgSets ==
    {Args({"a"}, {"validate", "submit", "rollback"}, TRUE, FALSE, TRUE),
     Args({"a"}, {"onChange", "setValue", "validate", "clearErrors"}, TRUE, FALSE, TRUE),
     Args({"a", "n.x"}, {"onChange", "rollback", "setError"}, FALSE, FALSE, TRUE),
     Args({"n", "n.x"}, {"setValue", "rollback"}, FALSE, FALSE, TRUE),
     Args({"n.x"}, {"setValue", "submit", "rollback"}, FALSE, TRUE, FALSE),
     Args({"n.x"}, {"setValue", "submit", "rollback"}, FALSE, FALSE, TRUE),
     [Args({"a"}, {"setValue", "rollback"}, FALSE, FALSE, TRUE)
        EXCEPT !.directives = Directives, !.writes = {"C", "5"}],
     [Args({"n.x"}, {"setValue", "rollback", "mutate"}, FALSE, FALSE, TRUE)
        EXCEPT !.directives = {Parser(FALSE, TRUE, FALSE, FALSE)}, !.writes = {"C", "5"}],
     Args({"a", "n.x"}, {"validate", "setError", "clearError"}, TRUE, FALSE, TRUE),
     [Args({"a"}, {"onChange", "onBlur", "onFocus", "submit", "teardown"}, TRUE, FALSE, TRUE)
        EXCEPT !.writes = {"C"}],
     [Args({"a"}, {"onChange", "onBlur", "onFocus", "submit", "teardown"}, TRUE, FALSE, TRUE)
        EXCEPT !.writes = {"C"}, !.validateOn = {"onFocus"},
               !.revalidateOn = {"onBlur", "onSubmit"}],
     [Args({"a", "n.x"}, {"setValue", "unregister"}, FALSE, FALSE, TRUE)
        EXCEPT !.writes = {"C"}],
     [Args({"a"}, {"setValue", "registerUnnamed"}, FALSE, FALSE, TRUE)
        EXCEPT !.writes = {"C"}],
     Args({"a"}, {"submit"}, FALSE, TRUE, TRUE),
     [Args({"a"}, {"submit"}, FALSE, FALSE, TRUE) EXCEPT !.handleOn = {}],
     [Args({"a"}, {"onChange", "onBlur", "onFocus"}, TRUE, FALSE, TRUE)
        EXCEPT !.writes = {"C"}, !.validateOn = {"onChange", "onBlur"},
               !.handleOn = {"onChange", "onBlur", "onSubmit"},
               !.callbacks = {"onChange", "onFocus"}],
     [Args({"a", "n.x"}, {"onChange", "rollbackInvalid"}, TRUE, FALSE, FALSE)
        EXCEPT !.writes = {"C"}]}

\* What the external validator may resolve with: no error, an error for "a", an
\* error for "n.x" under the literal key, or under the nested path.
ValidatorError == ErrorRecord("invalid", "bad")
ValidatorResults ==
    {NoErrors}
    \cup {[NoErrors EXCEPT !["a"] = ESeq(<<ValidatorError>>)] : f \in args.fields \cap {"a"}}
    \cup {[NoErrors EXCEPT !["n.x"] = ESeq(<<ValidatorError>>)] : f \in args.fields \cap {"n.x"}}
    \cup {[NoErrors EXCEPT !["n"] = EObj(<<ValidatorError>>)] : f \in args.fields \cap {"n.x"}}

\* What a callback passed by the application does with the api it is handed.
Behaviours == {"return", "rollback", "throw"}

\* The record of a step: the operation and its field; the callback a submit
\* invoked and what that callback did; whether an exception left the operation;
\* what the validator answered ("none" when it was not asked).
Did(op, field) ==
    [op |-> op, field |-> field, callback |-> "none", behaviour |-> "return",
     threw |-> FALSE, validation |-> "none"]

\* A trigger check that never looks at the submit count.
shouldValidateIgnoringSubmits(eventType) == eventType \in args.validateOn

\* A trigger check that follows isSubmitted, which a rollback of the whole form
\* resets, in place of the submit count.
shouldValidateWhileSubmitted(eventType) ==
    IF isSubmitted THEN eventType \in args.revalidateOn
    ELSE eventType \in args.validateOn

\* private shouldValidateOrRevalidate(eventType)
shouldValidateOrRevalidate(eventType) ==
    IF submitCount > 0 THEN eventType \in args.revalidateOn
    ELSE eventType \in args.validateOn

\* The events an element reports to onChange, onBlur, onFocus.
EventTypes == {"onChange", "onBlur", "onFocus"}

\* What a settled validation leaves for the submit() that awaited it.
Outcomes == {"rejected", "clean", "errors"}

\* A rollbackInvalid(context) that awaits its validation, by its context.
RollbackInvalidOwner(keepError, keepDirty) ==
    CASE keepError /\ keepDirty -> "rollbackInvalid keepError keepDirty"
      [] keepError /\ ~keepDirty -> "rollbackInvalid keepError"
      [] ~keepError /\ keepDirty -> "rollbackInvalid keepDirty"
      [] OTHER -> "rollbackInvalid"
RollbackInvalidOwners ==
    {RollbackInvalidOwner(keepError, keepDirty) : keepError \in BOOLEAN, keepDirty \in BOOLEAN}
KeepsError(owner) == owner \in {RollbackInvalidOwner(TRUE, k) : k \in BOOLEAN}
KeepsDirty(owner) == owner \in {RollbackInvalidOwner(k, TRUE) : k \in BOOLEAN}

\* An event handler that calls the handler as well as the callback of the field.
eventCallbackAndHandler(eventType) ==
    IF eventType \in args.callbacks
    THEN IF eventType \in args.handleOn /\ args.handler THEN "both" ELSE "field"
    ELSE IF eventType \in args.handleOn /\ args.handler THEN "handler"
    ELSE "none"

\* What onChange / onBlur / onFocus invokes after `await this.setValue(...)`: the
\* callback register was passed, and only without one the handler.
eventCallback(eventType) ==
    IF eventType \in args.callbacks THEN "field"
    ELSE IF eventType \in args.handleOn /\ args.handler THEN "handler"
    ELSE "none"

\* The store after that invocation: both callbacks are handed this.api or
\* this.parsedValues, which reads the parsedValues getter.
afterEvent(s, eventType) == IF eventCallback(eventType) = "none" THEN s ELSE touch(s)

\* Who awaits the validation an event requests: the event handler when
\* something is left for it to do afterwards.
eventOwner(eventType) == IF eventCallback(eventType) = "none" THEN "none" ELSE eventType

\* A whole-form request is later than the whole-form requests still in flight:
\* they are superseded, and overtaken once a later one has settled before them.
Supersede(cs, field) ==
    [i \in 1..Len(cs) |->
        IF field = NoField /\ cs[i].field = NoField /\ cs[i].rank = "latest"
        THEN [cs[i] EXCEPT !.rank = "superseded"] ELSE cs[i]]

Overtake(cs, i) ==
    [j \in 1..Len(cs) |->
        IF cs[i].field = NoField /\ j < i /\ cs[j].field = NoField
        THEN [cs[j] EXCEPT !.rank = "overtaken"] ELSE cs[j]]

Remove(cs, i) == SubSeq(cs, 1, i - 1) \o SubSeq(cs, i + 1, Len(cs))

\* validate(field) from its call to the await of the validator:
\* isValidating = true; the validator is called with this.parsedValues.
callValidator(s, field, owner) ==
    /\ Len(calls) < MaxCalls
    /\ SetStore(touch(s))
    /\ isValidating' = TRUE
    /\ calls' = Append(Supersede(calls, field),
                       [field |-> field, owner |-> owner, rank |-> "latest"])
    /\ resuming' = resuming

\* validate(field) when no validator is configured: try { isValidating = true;
\* return } finally { isValidating = false }
validateNothing(s) ==
    /\ SetStore(s)
    /\ isValidating' = FALSE
    /\ UNCHANGED <<calls, resuming>>

\* A validate(field) that writes the whole result whatever the field.
validatedWhole(s, field, result) == [s EXCEPT !.errors = result]

\* A validate() that merges the result into the error map.
validatedMerging(s, field, result) ==
    [s EXCEPT !.errors =
        IF field # NoField THEN set(@, field, getError(result, field))
        ELSE [k \in TopKeys |-> IF result[k].kind # "absent" THEN result[k] ELSE @[k]]]

\* validate(field) after the await: the result is written, field-scoped or whole.
validated(s, field, result) ==
    [s EXCEPT !.errors =
        IF field # NoField THEN set(@, field, getError(result, field)) ELSE result]

\* A submit() that goes on to its callbacks after a validation that threw.
submitCallbackAfterRejection(s, rejected) ==
    IF ~isValid(s.errors) THEN "none"
    ELSE IF args.onSubmit THEN "onSubmit"
    ELSE IF "onSubmit" \in args.handleOn /\ args.handler THEN "handler"
    ELSE "none"

\* A submit() that does not return after the onSubmit callback.
submitCallbackWithoutReturn(s, rejected) ==
    IF rejected \/ ~isValid(s.errors) THEN "none"
    ELSE IF args.onSubmit
         THEN IF "onSubmit" \in args.handleOn /\ args.handler THEN "both" ELSE "onSubmit"
    ELSE IF "onSubmit" \in args.handleOn /\ args.handler THEN "handler"
    ELSE "none"

\* The callback submit() invokes once validation is over.
submitCallback(s, rejected) ==
    IF rejected \/ ~isValid(s.errors) THEN "none"
    ELSE IF args.onSubmit THEN "onSubmit"
    ELSE IF "onSubmit" \in args.handleOn /\ args.handler THEN "handler"
    ELSE "none"

\* A submit() without the finally block: an exception skips the bookkeeping.
submitEndWithoutFinally(s, rejected, behaviour, validation) ==
    /\ submitCallback(s, rejected) = "none" => behaviour = "return"
    /\ SetStore(IF submitCallback(s, rejected) = "none" THEN s
                ELSE IF behaviour = "rollback"
                     THEN rollback(touch(s), NoField, FALSE, FALSE, Undefined)
                     ELSE touch(s))
    /\ isSubmitSuccessful' =
          IF rejected THEN isSubmitSuccessful
          ELSE IF isValid(s.errors) THEN "true" ELSE "false"
    /\ isSubmitting' = (rejected \/ behaviour = "throw")
    /\ submitCount' = IF rejected \/ behaviour = "throw" THEN submitCount
                      ELSE submitCount + 1
    /\ last' = [Did("submitEnd", NoField) EXCEPT
                   !.callback = submitCallback(s, rejected),
                   !.behaviour = behaviour,
                   !.threw = rejected \/ behaviour = "throw",
                   !.validation = validation]

\* submit() from `this.isSubmitSuccessful = this.isValid` to the end of finally.
\* rejected: validate() threw and the rest of try is skipped.
submitEnd(s, rejected, behaviour, validation) ==
    /\ submitCallback(s, rejected) = "none" => behaviour = "return"
    /\ SetStore(IF submitCallback(s, rejected) = "none" THEN s
                ELSE IF behaviour = "rollback"
                     THEN rollback(touch(s), NoField, FALSE, FALSE, Undefined)
                     ELSE touch(s))
    /\ isSubmitSuccessful' =
          IF rejected THEN isSubmitSuccessful
          ELSE IF isValid(s.errors) THEN "true" ELSE "false"
    /\ isSubmitting' = FALSE
    /\ submitCount' = submitCount + 1
    /\ last' = [Did("submitEnd", NoField) EXCEPT
                   !.callback = submitCallback(s, rejected),
                   !.behaviour = behaviour,
                   !.threw = rejected \/ behaviour = "throw",
                   !.validation = validation]

\* The condition under which register attaches, and its teardown removes, the
\* listener of a blur or a focus event: a callback for it was passed to register
\* or the event validates now, or the handler is called on it.
listensTo(eventType) ==
    \/ eventType \in args.callbacks
    \/ shouldValidateOrRevalidate(eventType)
    \/ eventType \in args.handleOn

\* The listeners register adds to a text input.
attachedListeners ==
    {"input", "invalid"}
    \cup (IF listensTo("onBlur") THEN {"blur"} ELSE {})
    \cup (IF listensTo("onFocus") THEN {"focusin"} ELSE {})

\* The listener types the teardown asks the element to remove.
removedListeners ==
    {"input", "invalid"}
    \cup (IF listensTo("onBlur") THEN {"blur"} ELSE {})
    \cup (IF listensTo("onFocus") THEN {"focus"} ELSE {})

\* A render that never runs a modifier again.
keepListeners == UNCHANGED listeners

\* The render after submitCount changed.  register is a function modifier and read
\* submitCount when it ran, so it runs again on every element still in the
\* template: the function it returned runs first, then register itself, both
\* with the new submitCount.
rerunRegister ==
    listeners' =
        [f \in DOMAIN listeners |->
            IF parsers[f].registered /\ ~listeners[f].torn /\ submitCount' # submitCount
            THEN [listeners[f] EXCEPT
                    !.attached = (@ \ removedListeners') \cup attachedListeners']
            ELSE listeners[f]]

\* submit() calls that have not ended
SubmitsInFlight ==
    Cardinality({i \in 1..Len(calls) : calls[i].owner = "submit"}) + Len(resuming)

\* The first render has run register for every field the template binds.
Rendered == \A f \in args.fields : parsers[f].registered

\* The form is rendered and no continuation is queued: the next event is handled.
Idle == Rendered /\ resuming = <<>>

\* What a settled validator call answered.
Outcome(resolved, result) ==
    IF ~resolved THEN "rejected" ELSE IF isEmpty(result) THEN "clean" ELSE "errors"

Init ==
    /\ values = [k \in TopKeys |->
                    CASE k = "a" -> AtomSlot("D") [] k = "n" -> RefSlot(1) [] OTHER -> Absent]
    /\ rollbackValues = [k \in TopKeys |->
                    CASE k = "a" -> AtomSlot("D") [] k = "n" -> RefSlot(2) [] OTHER -> Absent]
    /\ heap = [c \in HeapCells |-> "D"]
    /\ errors = NoErrors
    /\ dirtyFields = NoDirty
    /\ parsers = [f \in Fields \cup {NoName} |-> Unregistered]
    /\ listeners = [f \in Fields \cup {NoName} |->
                        [attached |-> {}, torn |-> FALSE, unregistered |-> FALSE]]
    /\ isSubmitted = FALSE
    /\ isSubmitting = FALSE
    /\ isValidating = FALSE
    /\ isSubmitSuccessful = "unset"
    /\ submitCount = 0
    /\ args \in ArgSets
    /\ calls = <<>>
    /\ resuming = <<>>
    /\ last = Did("constructor", NoField)

\* {{api.register field ...}} in the first render: the directive is recorded and
\* the element is given getValue(field).
Register(field, parser) ==
    /\ ~parsers[field].registered
    /\ SetStore(touch([Store EXCEPT !.parsers[field] = parser]))
    /\ listeners' = [listeners EXCEPT ![field].attached = @ \cup attachedListeners]
    /\ last' = Did("register", field)
    /\ UNCHANGED <<isSubmitting, isValidating, isSubmitSuccessful, submitCount, args,
                   calls, resuming>>

\* {{api.register}} on an input that has no name attribute.  In a debug build the
\* assert on the name throws before anything is written; in a production build
\* the assert is gone and register goes on as for any name.
RegisterUnnamed(parser, build) ==
    /\ "registerUnnamed" \in args.uses
    /\ ~parsers[NoName].registered
    /\ IF build = "debug"
       THEN /\ last' = [Did("register", NoName) EXCEPT !.threw = TRUE]
            /\ UNCHANGED <<values, rollbackValues, heap, errors, dirtyFields, parsers,
                           listeners, isSubmitted>>
       ELSE /\ SetStore(touch([Store EXCEPT !.parsers[NoName] = parser]))
            /\ listeners' = [listeners EXCEPT ![NoName].attached = @ \cup attachedListeners]
            /\ last' = Did("register", NoName)
    /\ UNCHANGED <<isSubmitting, isValidating, isSubmitSuccessful, submitCount, args,
                   calls, resuming>>

\* The function register returned runs: the element leaves the template.
Teardown(field) ==
    /\ Idle
    /\ "teardown" \in args.uses
    /\ ~listeners[field].torn
    /\ listeners' = [listeners EXCEPT ![field] =
                        [@ EXCEPT !.attached = @ \ removedListeners, !.torn = TRUE]]
    /\ last' = Did("teardown", field)
    /\ UNCHANGED <<values, rollbackValues, heap, errors, dirtyFields, parsers, isSubmitted,
                   isSubmitting, isValidating, isSubmitSuccessful, submitCount, args,
                   calls, resuming>>

\* api.rollback(field, {keepError, keepDirty, defaultValue})
Rollback(field, keepError, keepDirty, defaultValue) ==
    /\ Idle
    /\ "rollback" \in args.uses
    /\ SetStore(rollback(Store, field, keepError, keepDirty, defaultValue))
    /\ last' = Did("rollback", field)
    /\ UNCHANGED <<isSubmitting, isValidating, isSubmitSuccessful, submitCount, args,
                   calls, resuming, listeners>>

\* api.setValue(field, value, {shouldValidate, shouldDirty})
SetValue(field, value, shouldValidate, shouldDirty) ==
    /\ Idle
    /\ "setValue" \in args.uses
    /\ IF shouldValidate
       THEN IF args.validator
            THEN callValidator(setValue(Store, field, value, shouldDirty), field, "none")
            ELSE validateNothing(setValue(Store, field, value, shouldDirty))
       ELSE /\ SetStore(setValue(Store, field, value, shouldDirty))
            /\ UNCHANGED <<isValidating, calls, resuming>>
    /\ last' = Did("setValue", field)
    /\ UNCHANGED <<isSubmitting, isSubmitSuccessful, submitCount, args, listeners>>

\* onChange(field, event): the value of the event is written with shouldDirty and
\* validated when the trigger lists say so; once the write, and the validation if
\* there is one, are over, the callback of the field or the handler is invoked.
OnChange(field, value) ==
    /\ Idle
    /\ "onChange" \in args.uses
    /\ "input" \in listeners[field].attached
    /\ IF shouldValidateOrRevalidate("onChange")
       THEN IF args.validator
            THEN callValidator(setValue(touch(Store), field, value, TRUE), field,
                               eventOwner("onChange"))
            ELSE validateNothing(afterEvent(setValue(touch(Store), field, value, TRUE),
                                            "onChange"))
       ELSE /\ SetStore(afterEvent(setValue(touch(Store), field, value, TRUE), "onChange"))
            /\ UNCHANGED <<isValidating, calls, resuming>>
    /\ last' = [Did("onChange", field) EXCEPT
                   !.callback = IF shouldValidateOrRevalidate("onChange") /\ args.validator
                                THEN "none" ELSE eventCallback("onChange")]
    /\ UNCHANGED <<isSubmitting, isSubmitSuccessful, submitCount, args, listeners>>

\* onBlur(field, event): the value of the element is written, without
\* shouldDirty, and validated when the trigger lists say so; then the callback of
\* the field or the handler is invoked.
OnBlur(field, value) ==
    /\ Idle
    /\ "onBlur" \in args.uses
    /\ "blur" \in listeners[field].attached
    /\ IF shouldValidateOrRevalidate("onBlur")
       THEN IF args.validator
            THEN callValidator(setValue(touch(Store), field, value, FALSE), field,
                               eventOwner("onBlur"))
            ELSE validateNothing(afterEvent(setValue(touch(Store), field, value, FALSE),
                                            "onBlur"))
       ELSE /\ SetStore(afterEvent(setValue(touch(Store), field, value, FALSE), "onBlur"))
            /\ UNCHANGED <<isValidating, calls, resuming>>
    /\ last' = [Did("onBlur", field) EXCEPT
                   !.callback = IF shouldValidateOrRevalidate("onBlur") /\ args.validator
                                THEN "none" ELSE eventCallback("onBlur")]
    /\ UNCHANGED <<isSubmitting, isSubmitSuccessful, submitCount, args, listeners>>

\* onFocus(field, event): as onBlur, with the trigger "onFocus".
OnFocus(field, value) ==
    /\ Idle
    /\ "onFocus" \in args.uses
    /\ "focusin" \in listeners[field].attached
    /\ IF shouldValidateOrRevalidate("onFocus")
       THEN IF args.validator
            THEN callValidator(setValue(touch(Store), field, value, FALSE), field,
                               eventOwner("onFocus"))
            ELSE validateNothing(afterEvent(setValue(touch(Store), field, value, FALSE),
                                            "onFocus"))
       ELSE /\ SetStore(afterEvent(setValue(touch(Store), field, value, FALSE), "onFocus"))
            /\ UNCHANGED <<isValidating, calls, resuming>>
    /\ last' = [Did("onFocus", field) EXCEPT
                   !.callback = IF shouldValidateOrRevalidate("onFocus") /\ args.validator
                                THEN "none" ELSE eventCallback("onFocus")]
    /\ UNCHANGED <<isSubmitting, isSubmitSuccessful, submitCount, args, listeners>>

\* api.validate(field)
Validate(field) ==
    /\ Idle
    /\ "validate" \in args.uses
    /\ IF args.validator
       THEN callValidator(Store, field, "none")
       ELSE validateNothing(Store)
    /\ last' = Did("validate", field)
    /\ UNCHANGED <<isSubmitting, isSubmitSuccessful, submitCount, args, listeners>>

\* api.onSubmit(event): submit() up to the await of the validator, or to its end
\* when no validator is awaited.
Submit(behaviour) ==
    /\ Idle
    /\ "submit" \in args.uses
    /\ submitCount + SubmitsInFlight < MaxSubmits
    /\ LET s == [Store EXCEPT !.isSubmitted = TRUE]
       IN IF shouldValidateOrRevalidate("onSubmit") /\ args.validator
          THEN /\ behaviour = "return"
               /\ callValidator(s, NoField, "submit")
               /\ isSubmitting' = TRUE
               /\ last' = Did("submit", NoField)
               /\ UNCHANGED <<isSubmitSuccessful, submitCount, args, listeners>>
          ELSE /\ submitEnd(s, FALSE, behaviour, "none")
               /\ isValidating' =
                     IF shouldValidateOrRevalidate("onSubmit") THEN FALSE ELSE isValidating
               /\ UNCHANGED <<calls, resuming, args>>
               /\ rerunRegister

\* The validator call calls[i] settles: it resolves with result, or rejects, and
\* the rest of validate() runs.  The submit() or the event handler that awaits
\* this validate() is queued to continue; a rejection ends an event handler.
Settle(i, resolved, result) ==
    /\ i \in 1..Len(calls)
    /\ ~resolved => result = NoErrors
    /\ SetStore(IF resolved THEN validated(Store, calls[i].field, result) ELSE Store)
    /\ isValidating' = FALSE
    /\ calls' = Remove(IF resolved THEN Overtake(calls, i) ELSE calls, i)
    /\ resuming' = IF calls[i].owner = "submit"
                   THEN Append(resuming, Outcome(resolved, result))
                   ELSE IF calls[i].owner \in EventTypes \cup RollbackInvalidOwners /\ resolved
                        THEN Append(resuming, calls[i].owner)
                        ELSE resuming
    /\ last' = [Did("validated", calls[i].field) EXCEPT
                   !.threw = ~resolved,
                   !.validation = Outcome(resolved, result)]
    /\ UNCHANGED <<isSubmitting, isSubmitSuccessful, submitCount, args, listeners>>

\* The submit() at the head of the queue continues after `await this.validate()`.
Resume(behaviour) ==
    /\ resuming # <<>>
    /\ Head(resuming) \in Outcomes
    /\ submitEnd(Store, Head(resuming) = "rejected", behaviour, Head(resuming))
    /\ resuming' = Tail(resuming)
    /\ UNCHANGED <<isValidating, args, calls>>
    /\ rerunRegister

\* The event handler at the head of the queue continues after
\* `await this.setValue(...)`: it invokes the callback of the field, or the handler.
Continue ==
    /\ resuming # <<>>
    /\ Head(resuming) \in EventTypes
    /\ SetStore(afterEvent(Store, Head(resuming)))
    /\ resuming' = Tail(resuming)
    /\ last' = [Did("continue", NoField) EXCEPT !.callback = eventCallback(Head(resuming))]
    /\ UNCHANGED <<isSubmitting, isValidating, isSubmitSuccessful, submitCount, args,
                   calls, listeners>>

\* api.rollbackInvalid(context) up to the await of the validator, or to its end
\* when there is no validator.
RollbackInvalid(keepError, keepDirty) ==
    /\ Idle
    /\ "rollbackInvalid" \in args.uses
    /\ IF args.validator
       THEN callValidator(Store, NoField, RollbackInvalidOwner(keepError, keepDirty))
       ELSE validateNothing(rollbackInvalid(Store, keepError, keepDirty))
    /\ last' = Did("rollbackInvalid", NoField)
    /\ UNCHANGED <<isSubmitting, isSubmitSuccessful, submitCount, args, listeners>>

\* The rollbackInvalid at the head of the queue continues after
\* `await this.validate()` with its loop over the invalid fields.
ContinueRollbackInvalid ==
    /\ resuming # <<>>
    /\ Head(resuming) \in RollbackInvalidOwners
    /\ SetStore(rollbackInvalid(Store, KeepsError(Head(resuming)), KeepsDirty(Head(resuming))))
    /\ resuming' = Tail(resuming)
    /\ last' = Did("rolledBackInvalid", NoField)
    /\ UNCHANGED <<isSubmitting, isValidating, isSubmitSuccessful, submitCount, args,
                   calls, listeners>>

\* api.setError(field, message).  Spreading an entry that is a plain object throws.
SetError(field) ==
    /\ Idle
    /\ "setError" \in args.uses
    /\ IF errors[field].kind = "obj"
       THEN /\ SetStore(touch(Store))
            /\ last' = [Did("setError", field) EXCEPT !.threw = TRUE]
       ELSE /\ errors[field].kind = "seq" => Len(errors[field].seq) < MaxErrors
            /\ SetStore(setError(Store, field, "message"))
            /\ last' = Did("setError", field)
    /\ UNCHANGED <<isSubmitting, isValidating, isSubmitSuccessful, submitCount, args,
                   calls, resuming, listeners>>

\* api.unregister(field, {keepError, keepDirty, keepValue, keepDefaultValue}) on
\* a field whose element is in the document
Unregister(field, keepError, keepDirty, keepValue, keepDefaultValue) ==
    /\ Idle
    /\ "unregister" \in args.uses
    /\ ~listeners[field].unregistered
    /\ SetStore(unregister(Store, field, keepError, keepDirty, keepValue, keepDefaultValue))
    /\ listeners' = [listeners EXCEPT ![field].unregistered = TRUE]
    /\ last' = Did("unregister", field)
    /\ UNCHANGED <<isSubmitting, isValidating, isSubmitSuccessful, submitCount, args,
                   calls, resuming>>

\* The application writes x of the nested object of the object it passed as
\* @values.  The constructor cloned that object twice (_cloneDeep), so nothing
\* of the component is written.
MutateExternal(value) ==
    /\ Idle
    /\ "mutate" \in args.uses
    /\ heap[ExternalCell] # value
    /\ heap' = [heap EXCEPT ![ExternalCell] = value]
    /\ last' = Did("mutate", NoField)
    /\ UNCHANGED <<values, rollbackValues, errors, dirtyFields, parsers, listeners,
                   isSubmitted, isSubmitting, isValidating, isSubmitSuccessful,
                   submitCount, args, calls, resuming>>

\* api.clearError(field)
ClearError(field) ==
    /\ Idle
    /\ "clearError" \in args.uses
    /\ SetStore(clearError(Store, field))
    /\ last' = Did("clearError", field)
    /\ UNCHANGED <<isSubmitting, isValidating, isSubmitSuccessful, submitCount, args,
                   calls, resuming, listeners>>

\* api.clearErrors()
ClearErrors ==
    /\ Idle
    /\ "clearErrors" \in args.uses
    /\ SetStore(clearErrors(Store))
    /\ last' = Did("clearErrors", NoField)
    /\ UNCHANGED <<isSubmitting, isValidating, isSubmitSuccessful, submitCount, args,
                   calls, resuming, listeners>>

\* The template is rendered again: {{yield this.parsedValues this.api}}
Render ==
    /\ Idle
    /\ touch(Store) # Store
    /\ SetStore(touch(Store))
    /\ last' = Did("render", NoField)
    /\ UNCHANGED <<isSubmitting, isValidating, isSubmitSuccessful, submitCount, args,
                   calls, resuming, listeners>>

Next ==
    \/ \E field \in args.fields, parser \in args.directives : Register(field, parser)
    \/ \E parser \in args.directives, build \in Builds : RegisterUnnamed(parser, build)
    \/ \E field \in args.fields : Teardown(field)
    \/ \E field \in args.fields, keepError \in BOOLEAN, keepDirty \in BOOLEAN,
          defaultValue \in DefaultValues :
            Rollback(field, keepError, keepDirty, defaultValue)
    \/ \E keepError \in BOOLEAN, keepDirty \in BOOLEAN :
            Rollback(NoField, keepError, keepDirty, Undefined)
    \/ \E field \in args.fields, value \in args.writes, shouldValidate \in BOOLEAN,
          shouldDirty \in BOOLEAN :
            SetValue(field, value, shouldValidate, shouldDirty)
    \/ \E field \in args.fields, value \in args.writes : OnChange(field, value)
    \/ \E field \in args.fields, value \in args.writes : OnBlur(field, value)
    \/ \E field \in args.fields, value \in args.writes : OnFocus(field, value)
    \/ \E field \in args.fields \cup {NoField} : Validate(field)
    \/ \E behaviour \in Behaviours : Submit(behaviour)
    \/ \E i \in 1..MaxCalls, resolved \in BOOLEAN, result \in ValidatorResults :
            Settle(i, resolved, result)
    \/ \E behaviour \in Behaviours : Resume(behaviour)
    \/ Continue
    \/ \E keepError \in BOOLEAN, keepDirty \in BOOLEAN : RollbackInvalid(keepError, keepDirty)
    \/ ContinueRollbackInvalid
    \/ \E field \in args.fields : SetError(field)
    \/ \E field \in args.fields, keepError \in BOOLEAN, keepDirty \in BOOLEAN,
          keepValue \in BOOLEAN, keepDefaultValue \in BOOLEAN :
            Unregister(field, keepError, keepDirty, keepValue, keepDefaultValue)
    \/ \E value \in args.writes : MutateExternal(value)
    \/ \E field \in args.fields : ClearError(field)
    \/ ClearErrors
    \/ Render

Spec == Init /\ [][Next]_vars

\* ------------------------------------------------- the released component
\* The component as released, src/ember-formidable/src/components/formidable/
\* index.ts: its constructor, the operations on values of the api it yields and
\* the change handler of a bound input, for an application that passes a plain
\* object or a record of the data store.  Inputs are bound without a parse
\* directive, which parsedValues treats as it treats a key without an entry in
\* this.parsers.

\* The value every attribute of @values has when the component is constructed.
InitialValue == "D"

\* get parsedValues(): the record itself, or the reduce over Object.entries of
\* the values bag, which writes every key with _set into a new object
indexParsedValues(s) ==
    IF args.isModel
    THEN [a |-> View(s.values["a"], s.heap), n |-> View(s.values["n"], s.heap)]
    ELSE parsedValues(s)

\* The store once parsedValues has been read.
indexTouch(s) == IF args.isModel THEN s ELSE touch(s)

\* getValue(key): get(this.parsedValues, key); no attribute is a relationship
indexGetValue(s, key) == get(indexParsedValues(s), key)

\* this.values.set(key, value) of a record: the path is walked
recordSet(s, key, value) ==
    IF key = "n.x"
    THEN IF s.values["n"].kind = "ref"
         THEN [s EXCEPT !.heap[s.values["n"].ref] = value]
         ELSE s
    ELSE [s EXCEPT !.values[key] = AtomSlot(value)]

\* setValue(key, value, {shouldValidate, shouldDirty}); without a validator the
\* validate task returns at once
indexSetValue(s, key, value, shouldDirty) ==
    LET w == IF args.isModel
             THEN recordSet(s, key, modelValue(value, s.parsers[key]))
             ELSE [s EXCEPT !.values[key] = AtomSlot(value)]
    IN IF shouldDirty THEN [w EXCEPT !.dirtyFields[key] = "true"] ELSE w

\* rollback(name, {keepError, keepDirty, defaultValue})
indexRollback(s, name, keepError, keepDirty, defaultValue) ==
    IF name # NoField
    THEN [s EXCEPT
            !.values[name] = rollbackTarget(s, name, defaultValue),
            !.errors[name] = IF keepError THEN @ ELSE EAbsent,
            !.dirtyFields[name] = IF keepDirty THEN @ ELSE "absent"]
    ELSE [s EXCEPT
            !.values = IF args.isModel
                       THEN [@ EXCEPT !["a"] = s.rollbackValues["a"],
                                      !["n"] = s.rollbackValues["n"]]
                       ELSE cloneDeepObj(s.rollbackValues),
            !.heap = IF args.isModel THEN @ ELSE cloneDeepHeap(s.rollbackValues, s.heap),
            !.errors = IF keepError THEN @ ELSE NoErrors,
            !.dirtyFields = IF keepDirty THEN @ ELSE NoDirty,
            !.isSubmitted = FALSE]

\* handleChange up to the await of the validate task: the field is marked dirty
\* and, when updateEvents holds "onChange", the validator is called with
\* this.parsedValues.
indexChanged(s, name) == indexTouch([s EXCEPT !.dirtyFields[name] = "true"])

\* handleChange after the await: setValue(name, event.target.value), and
\* onValuesChanged(this.parsedValues, this.api) when updateEvents holds "onChange"
indexHandled(s, name, value) ==
    IF "onChange" \in args.updateEvents /\ args.handler
    THEN indexTouch(indexSetValue(s, name, value, FALSE))
    ELSE indexSetValue(s, name, value, FALSE)

\* validate() of the task after the yield: this.errors = new TrackedObject(validation)
indexValidated(s, result) == [s EXCEPT !.errors = result]

IndexArgSets ==
    {[Args({"a", "n.x"}, {"setValue", "rollback", "mutate"}, FALSE, FALSE, FALSE)
        EXCEPT !.writes = {"C"}, !.isModel = m] : m \in BOOLEAN}
    \cup {[Args({"a"}, {"onChange"}, TRUE, FALSE, TRUE)
            EXCEPT !.updateEvents = {"onChange", "onSubmit"}]}

\* values = isModel ? args.values : new TrackedObject(args.values), a copy of the
\* top-level keys only; the constructor then fills rollbackValues with
\* _cloneDeep of the plain object, or attribute by attribute with _cloneDeep of
\* every attribute that is an object.
InitIndex ==
    /\ values = [k \in TopKeys |->
                    CASE k = "a" -> AtomSlot(InitialValue)
                      [] k = "n" -> RefSlot(ExternalCell)
                      [] OTHER -> Absent]
    /\ rollbackValues = [k \in TopKeys |->
                    CASE k = "a" -> AtomSlot(InitialValue)
                      [] k = "n" -> RefSlot(2)
                      [] OTHER -> Absent]
    /\ heap = [c \in HeapCells |-> InitialValue]
    /\ errors = NoErrors
    /\ dirtyFields = NoDirty
    /\ parsers = [f \in Fields \cup {NoName} |-> Unregistered]
    /\ listeners = [f \in Fields \cup {NoName} |->
                        [attached |-> {}, torn |-> FALSE, unregistered |-> FALSE]]
    /\ isSubmitted = FALSE
    /\ isSubmitting = FALSE
    /\ isValidating = FALSE
    /\ isSubmitSuccessful = "unset"
    /\ submitCount = 0
    /\ args \in IndexArgSets
    /\ calls = <<>>
    /\ resuming = <<>>
    /\ last = Did("constructor", NoField)

\* api.setValue(key, value, {shouldValidate, shouldDirty})
IndexSetValue(key, value, shouldValidate, shouldDirty) ==
    /\ "setValue" \in args.uses
    /\ SetStore(indexSetValue(Store, key, value, shouldDirty))
    /\ last' = Did("setValue", key)
    /\ UNCHANGED <<listeners, isSubmitting, isValidating, isSubmitSuccessful, submitCount,
                   args, calls, resuming>>

\* api.rollback(name, {keepError, keepDirty, defaultValue})
IndexRollback(name, keepError, keepDirty, defaultValue) ==
    /\ "rollback" \in args.uses
    /\ SetStore(indexRollback(Store, name, keepError, keepDirty, defaultValue))
    /\ last' = Did("rollback", name)
    /\ UNCHANGED <<listeners, isSubmitting, isValidating, isSubmitSuccessful, submitCount,
                   args, calls, resuming>>

\* A render reads the yielded values, that is the parsedValues getter.
IndexRender ==
    /\ indexTouch(Store) # Store
    /\ SetStore(indexTouch(Store))
    /\ last' = Did("render", NoField)
    /\ UNCHANGED <<listeners, isSubmitting, isValidating, isSubmitSuccessful, submitCount,
                   args, calls, resuming>>

\* The application writes x of the nested object of the object it passed as
\* @values.
IndexMutateExternal(value) ==
    /\ "mutate" \in args.uses
    /\ heap[ExternalCell] # value
    /\ heap' = [heap EXCEPT ![ExternalCell] = value]
    /\ last' = Did("mutate", NoField)
    /\ UNCHANGED <<values, rollbackValues, errors, dirtyFields, parsers, listeners,
                   isSubmitted, isSubmitting, isValidating, isSubmitSuccessful,
                   submitCount, args, calls, resuming>>

\* A change event on the input bound to name.  validate is a restartable task:
\* performing it drops the run that is still waiting for the validator, and the
\* handler that awaited that run ends there.
IndexHandleChange(name, value) ==
    /\ "onChange" \in args.uses
    /\ IF "onChange" \in args.updateEvents /\ args.validator
       THEN /\ SetStore(indexChanged(Store, name))
            /\ isValidating' = TRUE
            /\ calls' = <<[name |-> name, value |-> value]>>
       ELSE /\ SetStore(indexHandled(indexChanged(Store, name), name, value))
            /\ UNCHANGED <<isValidating, calls>>
    /\ last' = Did("onChange", name)
    /\ UNCHANGED <<listeners, isSubmitting, isSubmitSuccessful, submitCount, args, resuming>>

\* The validator settles: the validate task writes its result and the change
\* handler that awaited it goes on; a rejection ends both.
IndexSettle(resolved, result) ==
    /\ calls # <<>>
    /\ ~resolved => result = NoErrors
    /\ SetStore(IF resolved
                THEN indexHandled(indexValidated(Store, result), calls[1].name, calls[1].value)
                ELSE Store)
    /\ isValidating' = FALSE
    /\ calls' = <<>>
    /\ last' = [Did("validated", calls[1].name) EXCEPT
                   !.threw = ~resolved,
                   !.validation = Outcome(resolved, result)]
    /\ UNCHANGED <<listeners, isSubmitting, isSubmitSuccessful, submitCount, args, resuming>>

NextIndex ==
    \/ \E key \in args.fields, value \in args.writes, shouldValidate \in BOOLEAN,
          shouldDirty \in BOOLEAN :
            IndexSetValue(key, value, shouldValidate, shouldDirty)
    \/ \E name \in args.fields \cup {NoField}, keepError \in BOOLEAN,
          keepDirty \in BOOLEAN, defaultValue \in DefaultValues :
            IndexRollback(name, keepError, keepDirty, defaultValue)
    \/ IndexRender
    \/ \E value \in args.writes \cup {InitialValue} : IndexMutateExternal(value)
    \/ \E name \in args.fields, value \in args.writes : IndexHandleChange(name, value)
    \/ \E resolved \in BOOLEAN, result \in ValidatorResults : IndexSettle(resolved, result)

SpecIndex == InitIndex /\ [][NextIndex]_vars

\* --------------------------------------------------------------- properties

\* The values bag and the rollback snapshot have the same keys and, key by key,
\* deeply equal values.
BagsEqual ==
    \A k \in TopKeys :
        /\ values[k].kind = "absent" <=> rollbackValues[k].kind = "absent"
        /\ View(values[k], heap) = View(rollbackValues[k], heap)

\* The values bag and the rollback snapshot hold the same nested object.
SharesStructure ==
    /\ values["n"].kind = "ref"
    /\ rollbackValues["n"].kind = "ref"
    /\ values["n"].ref = rollbackValues["n"].ref

\* What the rollback snapshot holds, key by key.
Snapshot ==
    [k \in TopKeys |->
        [present |-> rollbackValues[k].kind # "absent",
         view |-> View(rollbackValues[k], heap)]]

\* Two field paths of which one lies inside the other.
Related(f, g) == {f, g} = {"n", "n.x"}

\* C1: when a whole-form validation settles after a later whole-form request
\* has already settled, its result is not written: the error map stays what the
\* later request made it.
C1_SupersededResultIsNotWritten ==
    [][\A i \in 1..MaxCalls, result \in ValidatorResults :
          (/\ i <= Len(calls)
           /\ calls[i].field = NoField
           /\ calls[i].rank = "overtaken"
           /\ Settle(i, TRUE, result)) => errors' = errors]_vars

\* C2: a submit whose validator reported at least one field error ends with
\* isSubmitSuccessful false, without having invoked onSubmit or the handler,
\* without an exception, and with submitCount one higher.
C2_InvalidSubmitInvokesNothing ==
    [][(last'.op = "submitEnd" /\ last'.validation = "errors") =>
          /\ isSubmitSuccessful' = "false"
          /\ last'.callback = "none"
          /\ ~last'.threw
          /\ submitCount' = submitCount + 1]_vars

\* C3: the end of every submit attempt, whether by success, by the early return
\* on an invalid form or by an exception, adds exactly one to submitCount and
\* leaves isSubmitting false; no other step changes submitCount, so it never
\* decreases.
C3_SubmitCountsOnce ==
    [][IF last'.op = "submitEnd"
       THEN submitCount' = submitCount + 1 /\ ~isSubmitting'
       ELSE submitCount' = submitCount]_vars

\* C3 witness: a second submit attempt has ended by an exception of the handler.
C3_Witness ==
    /\ last.op = "submitEnd"
    /\ last.callback = "handler"
    /\ last.behaviour = "throw"
    /\ last.threw
    /\ submitCount > 1
    /\ ~isSubmitting

\* C4: isSubmitted is true when submit() has called the validator, and a
\* submit whose validation settled ends with isSubmitSuccessful equal to the
\* validity of the error map that validation produced.
C4_SuccessIsValidityOfOwnValidation ==
    /\ last.op = "submit" => isSubmitted
    /\ (last.op = "submitEnd" /\ last.validation \in {"clean", "errors"}) =>
          isSubmitSuccessful = IF last.validation = "clean" THEN "true" ELSE "false"

\* C5: right after rollback() with no field the values bag is deeply equal to
\* the rollback snapshot and shares no nested object with it; and while they
\* share none, a value write, a change event or the render that follows leaves
\* the snapshot as it was.
C5_WholeRollbackIsFreshDeepCopy ==
    [][/\ (last'.op = "rollback" /\ last'.field = NoField)
            => (BagsEqual' /\ ~SharesStructure')
       /\ (~SharesStructure /\ last'.op \in {"setValue", "onChange", "render"})
            => Snapshot' = Snapshot]_vars

\* C5 witness: the form was rolled back as a whole after the nested field had
\* been edited (its dirty flag was kept).
C5_Witness ==
    /\ last.op = "rollback"
    /\ last.field = NoField
    /\ dirtyFields["n.x"] = "true"
    /\ BagsEqual

\* C6: rollback() with no field empties the error map unless keepError and the
\* dirty set unless keepDirty, leaves the kept one exactly as it was, and makes
\* isSubmitted false.
C6_WholeRollbackFrame ==
    [][\A keepError \in BOOLEAN, keepDirty \in BOOLEAN :
          (/\ last'.op = "rollback"
           /\ last'.field = NoField
           /\ Rollback(NoField, keepError, keepDirty, Undefined)) =>
              /\ errors' = IF keepError THEN errors ELSE NoErrors
              /\ dirtyFields' = IF keepDirty THEN dirtyFields ELSE NoDirty
              /\ ~isSubmitted']_vars

\* C6 witness: a submitted form with errors was rolled back as a whole with
\* keepError.
C6_Witness ==
    /\ last.op = "rollback"
    /\ last.field = NoField
    /\ errors # NoErrors
    /\ submitCount > 0
    /\ ~isSubmitted

\* C7: when the handler of a valid submit calls rollback() with no field, then
\* at the end of that submit isSubmitted is false and every bound field holds
\* its default value: getValue(f) = getDefaultValue(f).
C7_HandlerRollbackRestoresDefaults ==
    (last.op = "submitEnd" /\ last.callback = "handler" /\ last.behaviour = "rollback") =>
        /\ ~isSubmitted
        /\ \A f \in args.fields : getValue(Store, f) = getDefaultValue(Store, f)

\* C8: after rollback(f, {defaultValue: d}) with d not nil, getValue(f) and
\* getDefaultValue(f) both return d.
C8_DefaultValueBecomesValueAndSnapshot ==
    [][\A f \in args.fields, keepError \in BOOLEAN, keepDirty \in BOOLEAN,
          d \in DefaultValues :
          (/\ last'.op = "rollback"
           /\ last'.field = f
           /\ ~IsNil(d)
           /\ Rollback(f, keepError, keepDirty, d)) =>
              /\ getValue(Store', f) = AtomView(d)
              /\ getDefaultValue(Store', f) = AtomView(d)]_vars

\* C9: after rollback(f) without defaultValue on an edited field f, top-level
\* or nested, getValue(f) = getDefaultValue(f), the error entry of f is gone
\* unless keepError and its dirty flag is gone unless keepDirty.
C9_FieldRollbackRestoresSnapshotValue ==
    [][\A f \in args.fields, keepError \in BOOLEAN, keepDirty \in BOOLEAN :
          (/\ last'.op = "rollback"
           /\ last'.field = f
           /\ values[f].kind # "absent"
           /\ Rollback(f, keepError, keepDirty, Undefined)) =>
              /\ getValue(Store', f) = getDefaultValue(Store', f)
              /\ ~keepError => getError(errors', f) = EUndef
              /\ ~keepDirty => dirtyFields'[f] = "absent"]_vars

\* C10: rollback(f, ctx) leaves the value, the snapshot value, the error entry
\* and the dirty flag of every field that is neither f nor a path inside or
\* around f as they were, and leaves isSubmitted, isSubmitSuccessful and
\* submitCount as they were.
C10_FieldRollbackFrame ==
    [][\A f \in args.fields :
          (last'.op = "rollback" /\ last'.field = f) =>
              /\ \A g \in args.fields \ {f} :
                    ~Related(f, g) =>
                       /\ getValue(Store', g) = getValue(Store, g)
                       /\ getDefaultValue(Store', g) = getDefaultValue(Store, g)
                       /\ errors'[g] = errors[g]
                       /\ getError(errors', g) = getError(errors, g)
                       /\ dirtyFields'[g] = dirtyFields[g]
              /\ isSubmitted' = isSubmitted
              /\ isSubmitSuccessful' = isSubmitSuccessful
              /\ submitCount' = submitCount]_vars

\* C10 witness: the nested field was rolled back while the top-level field had
\* an error and a dirty flag.
C10_Witness ==
    /\ last.op = "rollback"
    /\ last.field = "n.x"
    /\ errors["a"].kind = "seq"
    /\ dirtyFields["a"] = "true"
    /\ "a" \in args.fields

\* What a store shows to its readers: every bag key by key (present or not, and
\* the value seen), the error map, the dirty set and isSubmitted.
Observed(s) ==
    [values |-> [k \in TopKeys |->
                    [present |-> s.values[k].kind # "absent",
                     view |-> View(s.values[k], s.heap)]],
     snapshot |-> [k \in TopKeys |->
                    [present |-> s.rollbackValues[k].kind # "absent",
                     view |-> View(s.rollbackValues[k], s.heap)]],
     errors |-> s.errors,
     dirtyFields |-> s.dirtyFields,
     isSubmitted |-> s.isSubmitted]

\* C11: whole-form rollback is idempotent: with the same keepError and
\* keepDirty, a second rollback() right after the first leaves the values, the
\* error map, the dirty set, the snapshot and isSubmitted as the first made them.
C11_WholeRollbackIdempotent ==
    [][\A keepError \in BOOLEAN, keepDirty \in BOOLEAN :
          (/\ last'.op = "rollback"
           /\ last'.field = NoField
           /\ Rollback(NoField, keepError, keepDirty, Undefined)) =>
              Observed(rollback(Store', NoField, keepError, keepDirty, Undefined))
                  = Observed(Store')]_vars

\* C11 witness: a form whose top-level field was edited and given an error was
\* rolled back as a whole, keeping the error map and the dirty set.
C11_Witness ==
    /\ last.op = "rollback"
    /\ last.field = NoField
    /\ errors["a"].kind = "seq"
    /\ dirtyFields["a"] = "true"
    /\ getValue(Store, "a") = getDefaultValue(Store, "a")

\* C12: while the form is being initialised, before any field has been set, every
\* registered field reads as its default whatever directive it was registered
\* with: getValue(f) = getDefaultValue(f).
C12_UnsetFieldReadsItsDefault ==
    last.op \in {"constructor", "register"} =>
        \A f \in args.fields :
            parsers[f].registered => getValue(Store, f) = getDefaultValue(Store, f)

\* The value stored for a field: under its literal key when the bag has it, and
\* otherwise where the path leads.
RawValue(s, f) ==
    IF s.values[f].kind # "absent" THEN View(s.values[f], s.heap)
    ELSE get([a |-> View(s.values["a"], s.heap), n |-> View(s.values["n"], s.heap)], f)

\* C13: getValue(f) right after setValue(f, v) is v converted by the directive
\* registered for f, and in every state getValue(f) of a field with a directive
\* is the stored value converted by that directive, never the stored value.
C13_GetValueIsConvertedStoredValue ==
    [][/\ \A f \in args.fields, v \in args.writes, shouldDirty \in BOOLEAN :
            (/\ last'.op = "setValue"
             /\ last'.field = f
             /\ SetValue(f, v, FALSE, shouldDirty)) =>
                getValue(Store', f) = AtomView(formatValue(v, parsers[f]))
       /\ \A f \in args.fields :
            parsedDirective(parsers'[f]) # "identity" =>
                getValue(Store', f) = formatView(RawValue(Store', f), parsers'[f])]_vars

\* The directive the stated precedence picks: custom formatter, then numeric,
\* then date, then boolean, then none.
PrecedenceDirective(parser) ==
    CASE parser.valueFormat -> "valueFormat"
      [] ~parser.valueFormat /\ parser.valueAsNumber -> "valueAsNumber"
      [] ~parser.valueFormat /\ ~parser.valueAsNumber /\ parser.valueAsDate -> "valueAsDate"
      [] OTHER -> IF parser.valueAsBoolean THEN "valueAsBoolean" ELSE "identity"

\* C14: for every registered field, the parsed-values view and the write into a
\* record both apply the one directive the precedence picks: a value written is
\* converted the same way on both paths.
C14_OnePrecedenceOnEveryPath ==
    \A f \in args.fields :
        parsers[f].registered =>
            /\ parsedDirective(parsers[f]) = PrecedenceDirective(parsers[f])
            /\ modelDirective(parsers[f]) = PrecedenceDirective(parsers[f])
            /\ \A v \in args.writes :
                  modelValue(v, parsers[f]) = formatValue(v, parsers[f])

\* C15: after setValue(f, v, {shouldDirty: true}), getFieldState(f).isDirty is
\* true exactly when the parsed value of f differs from the snapshot value of f.
C15_DirtyIffValueDiffersFromSnapshot ==
    [][\A f \in args.fields, v \in args.writes, shouldValidate \in BOOLEAN :
          (/\ last'.op = "setValue"
           /\ last'.field = f
           /\ SetValue(f, v, shouldValidate, TRUE)) =>
              (getFieldState(Store', f).isDirty
                  <=> getValue(Store', f) # getDefaultValue(Store', f))]_vars

\* C16: in every state a field marked dirty has a parsed value that differs from
\* its snapshot value: a field whose value equals its snapshot is not marked.
C16_DirtyOnlyWhenDifferent ==
    \A f \in args.fields :
        dirtyFields[f] = "true" => getValue(Store, f) # getDefaultValue(Store, f)

\* C17: in every state getFieldState(f).isInvalid holds exactly when the error
\* map has a non-empty sequence of errors for f, and the form is valid exactly
\* when no bound field is invalid.
C17_ValidIffNoFieldInvalid ==
    /\ \A f \in args.fields :
          getFieldState(Store, f).isInvalid
              <=> (errors[f].kind = "seq" /\ errors[f].seq # <<>>)
    /\ isValid(errors) <=> \A f \in args.fields : ~getFieldState(Store, f).isInvalid

\* The entry of a field in the error map, where _set writes it: under the
\* literal key when the map has it, and otherwise where the path leads.
Entry(errs, f) ==
    IF IsKey(errs, f)
    THEN (IF errs[f].kind = "absent" THEN EUndef ELSE errs[f])
    ELSE getError(errs, f)

\* C18: when a field-scoped validate(f) settles, the entry of f becomes what
\* the result holds for f, and the entry of every other field that is neither
\* inside nor around f stays as it was, whatever the result reports for it.
C18_FieldValidateFrame ==
    [][\A i \in 1..MaxCalls, result \in ValidatorResults :
          (/\ last'.op = "validated"
           /\ last'.field # NoField
           /\ i <= Len(calls)
           /\ Settle(i, TRUE, result)) =>
              /\ Entry(errors', calls[i].field) = getError(result, calls[i].field)
              /\ \A g \in args.fields \ {calls[i].field} :
                    ~Related(calls[i].field, g) =>
                       /\ errors'[g] = errors[g]
                       /\ getError(errors', g) = getError(errors, g)]_vars

\* C18 witness: validate("a") settled with a result that reports an error for
\* the nested field only, while the nested field had an error of the
\* application: that error is still there and "a" has none.
C18_Witness ==
    /\ last.op = "validated"
    /\ last.field = "a"
    /\ last.validation = "errors"
    /\ errors["a"].kind = "undef"
    /\ errors["n.x"] = ESeq(<<ErrorRecord("custom", "message")>>)

\* C19: when a whole-form validate() settles that no later whole-form request
\* has superseded, the error map becomes exactly the result of the validator.
C19_WholeValidateReplacesErrors ==
    [][\A i \in 1..MaxCalls, result \in ValidatorResults :
          (/\ last'.op = "validated"
           /\ last'.field = NoField
           /\ i <= Len(calls)
           /\ calls[i].rank = "latest"
           /\ Settle(i, TRUE, result)) => errors' = result]_vars

\* C19 witness: a whole-form validate() of a form with two fields settled with
\* an error for "a" alone, and the error map has that entry and no other.
C19_Witness ==
    /\ last.op = "validated"
    /\ last.field = NoField
    /\ last.validation = "errors"
    /\ "n.x" \in args.fields
    /\ "setError" \in args.uses
    /\ errors = [NoErrors EXCEPT !["a"] = ESeq(<<ValidatorError>>)]

\* C20: isValidating is true once validate has called the validator and for as
\* long as a call of the validator has not settled, whatever else happens; it is
\* false once the last pending call has settled, and after a validate without
\* a validator.
C20_ValidatingWhileCallPending ==
    [][/\ calls' # <<>> => isValidating'
       /\ (last'.op = "validated" /\ calls' = <<>>) => ~isValidating'
       /\ (last'.op = "validate" /\ ~args.validator) => ~isValidating']_vars

\* The events of a bound element that the component handles.
FieldEvents == {"onChange", "onBlur", "onFocus"}

\* C21: the handler of a change, blur or focus event writes the value of the
\* event, and it calls the validator exactly when the event type is in
\* validateOn while no submit attempt has been counted, and in revalidateOn
\* once one has.
C21_EventValidatesByTriggerList ==
    [][\A e \in FieldEvents, f \in args.fields, v \in args.writes :
          (/\ last'.op = e
           /\ last'.field = f
           /\ CASE e = "onChange" -> OnChange(f, v)
                [] e = "onBlur" -> OnBlur(f, v)
                [] OTHER -> OnFocus(f, v)) =>
              /\ values'[f] = AtomSlot(v)
              /\ args.validator =>
                    (Len(calls') = Len(calls) + 1
                        <=> e \in (IF submitCount > 0 THEN args.revalidateOn
                                   ELSE args.validateOn))]_vars

\* C21 witness: after a counted submit attempt a change event has called the
\* validator, under the default lists, where a change does not before.
C21_Witness ==
    /\ last.op = "onChange"
    /\ submitCount > 0
    /\ "onChange" \notin args.validateOn
    /\ calls # <<>>
    /\ calls[Len(calls)].field = "a"
    /\ calls[Len(calls)].owner = "none"

\* C22: once the teardown of a binding has run, no listener that its register
\* call installed is left on the element.
C22_TeardownRemovesEveryListener ==
    \A f \in args.fields : listeners[f].torn => listeners[f].attached = {}

\* The error records stored under the literal key of a field.
Records(errs, f) == IF errs[f].kind = "seq" THEN errs[f].seq ELSE <<>>

C24_ClearErrorFrame ==
    [][/\ \A f \in args.fields :
            (last'.op = "clearError" /\ last'.field = f) =>
                /\ isEmptyEntry(errors'[f])
                /\ isEmptyEntry(getError(errors', f))
                /\ \A g \in args.fields \ {f} :
                      ~Related(f, g) =>
                          errors'[g] = errors[g] /\ getError(errors', g) = getError(errors, g)
       /\ last'.op = "clearErrors" => errors' = NoErrors
       /\ last'.op \in {"clearError", "clearErrors"} =>
            /\ values' = values
            /\ rollbackValues' = rollbackValues
            /\ heap' = heap
            /\ dirtyFields' = dirtyFields]_vars

\* C25: unregister(f, flags) removes the error entry, the dirty flag, the value
\* and the snapshot value of f, each exactly when its keep flag is not set (a
\* removed value reads as undefined, a kept one as before), and leaves what
\* every field neither inside nor around f has as it was.
C25_UnregisterRemovesPerFlag ==
    [][\A f \in args.fields, keepError \in BOOLEAN, keepDirty \in BOOLEAN,
          keepValue \in BOOLEAN, keepDefaultValue \in BOOLEAN :
          (/\ last'.op = "unregister"
           /\ last'.field = f
           /\ Unregister(f, keepError, keepDirty, keepValue, keepDefaultValue)) =>
              /\ IF keepError THEN errors'[f] = errors[f]
                 ELSE ~getFieldState(Store', f).isInvalid
              /\ IF keepDirty THEN dirtyFields'[f] = dirtyFields[f]
                 ELSE ~getFieldState(Store', f).isDirty /\ dirtyFields'[f] = "absent"
              /\ getValue(Store', f) =
                    IF keepValue THEN getValue(Store, f) ELSE AtomView(Undefined)
              /\ getDefaultValue(Store', f) =
                    IF keepDefaultValue THEN getDefaultValue(Store, f)
                    ELSE AtomView(Undefined)
              /\ \A g \in args.fields \ {f} :
                    ~Related(f, g) =>
                       /\ getValue(Store', g) = getValue(Store, g)
                       /\ getDefaultValue(Store', g) = getDefaultValue(Store, g)
                       /\ errors'[g] = errors[g]
                       /\ dirtyFields'[g] = dirtyFields[g]]_vars

\* C26: for a plain values object, a write of the application to the object it
\* passed changes neither getValue nor the default value of any field, and no
\* operation of the component writes to that object.
C26_NoStructureSharedWithExternal ==
    [][~args.isModel =>
          /\ last'.op = "mutate" =>
                \A f \in args.fields :
                    /\ indexGetValue(Store', f) = indexGetValue(Store, f)
                    /\ getDefaultValue(Store', f) = getDefaultValue(Store, f)
          /\ last'.op # "mutate" => heap'[ExternalCell] = heap[ExternalCell]]_vars

\* C27: setValue(f, v) has written v when it returns to wait for the validation
\* it requested (a top-level field already reads as v, converted), and the
\* settling of a validation, in whatever order, changes no stored value and
\* nothing getValue returns: the value of the later call stays.
C27_ValueWrittenBeforeValidationSettles ==
    [][/\ \A f \in args.fields, v \in args.writes, shouldDirty \in BOOLEAN :
            (/\ last'.op = "setValue"
             /\ last'.field = f
             /\ SetValue(f, v, TRUE, shouldDirty)) =>
                /\ values'[f] = AtomSlot(v)
                /\ f = "a" => getValue(Store', f) = AtomView(formatValue(v, parsers[f]))
       /\ last'.op = "validated" =>
            \A f \in args.fields :
                /\ values'[f] = values[f]
                /\ getValue(Store', f) = getValue(Store, f)]_vars

\* Two validations of "a" were requested around writes of "a", "C" is the
\* value written last, and one validation has settled while the other is pending.
C27_Witness ==
    /\ last.op = "validated"
    /\ last.field = "a"
    /\ "setValue" \in args.uses
    /\ Len(calls) = 1
    /\ calls[1].field = "a"
    /\ calls[1].owner = "none"
    /\ values["a"] = AtomSlot("C")

\* C28: when @values is a record, a whole-form rollback leaves every attribute
\* of the record, top-level or inside a nested object, with the value it had
\* when the component was constructed.
C28_RecordRollbackRestoresConstructionValues ==
    [][(args.isModel /\ last'.op = "rollback" /\ last'.field = NoField) =>
          \A f \in args.fields : indexGetValue(Store', f) = AtomView(InitialValue)]_vars

\* C29: register on an element without a name, given no field path, fails, and
\* leaves the parser registry and the listeners of the element as they were.
C29_UnnamedRegisterFailsWithoutEffect ==
    [][\A parser \in args.directives, build \in Builds :
          (/\ last'.op = "register"
           /\ last'.field = NoName
           /\ RegisterUnnamed(parser, build)) =>
              /\ last'.threw
              /\ parsers' = parsers
              /\ listeners' = listeners]_vars

\* C30: a submit that ends valid invokes the onSubmit callback when one is
\* passed, and otherwise the handler when one is passed and handleOn holds
\* "onSubmit"; it invokes nothing else, and never the two of them.
C30_ValidSubmitInvokesOneCallback ==
    [][(last'.op = "submitEnd" /\ isSubmitSuccessful' = "true" /\ ~last'.threw) =>
          last'.callback =
              IF args.onSubmit THEN "onSubmit"
              ELSE IF args.handler /\ "onSubmit" \in args.handleOn THEN "handler"
              ELSE "none"]_vars

\* A valid submit of a form that was given both callbacks has called onSubmit.
C30_Witness ==
    /\ last.op = "submitEnd"
    /\ isSubmitSuccessful = "true"
    /\ args.onSubmit
    /\ args.handler
    /\ "onSubmit" \in args.handleOn
    /\ last.callback = "onSubmit"

\* C31: an event step has written the value of the event; it invokes the
\* callback of the field, or the handler, in that step only when it requests no
\* validation, and otherwise leaves the invocation to a continuation, which is
\* queued only when a validator call the event owns settles; no settling step
\* invokes a callback; and the handler is never invoked for an event the field
\* has a callback for.
C31_FieldCallbackAfterWriteAndValidation ==
    [][/\ \A f \in args.fields, v \in args.writes :
            (/\ last'.op \in EventTypes
             /\ last'.field = f
             /\ \/ OnChange(f, v)
                \/ OnBlur(f, v)
                \/ OnFocus(f, v)) =>
                /\ values'[f] = AtomSlot(v)
                /\ calls' # calls => last'.callback = "none"
                /\ last'.callback \in
                      {"none", IF last'.op \in args.callbacks
                               THEN "field" ELSE "handler"}
       /\ last'.op = "validated" => last'.callback = "none"
       /\ resuming' # resuming /\ Len(resuming') > Len(resuming) =>
            /\ last'.op = "validated"
            /\ \E i \in 1..Len(calls) :
                  /\ calls[i].owner # "none"
                  /\ Len(calls') = Len(calls) - 1
                  /\ resuming' = Append(resuming,
                        IF calls[i].owner = "submit" THEN last'.validation
                        ELSE calls[i].owner)
       /\ last'.op = "continue" =>
            /\ calls' = calls
            /\ errors' = errors
            /\ values' = values
            /\ last'.callback =
                  IF Head(resuming) \in args.callbacks THEN "field" ELSE "handler"]_vars

\* The callback of the field is invoked for a change event whose validation has
\* settled with an error, although the handler is configured for change events.
C31_Witness ==
    /\ last.op = "continue"
    /\ last.callback = "field"
    /\ "onChange" \in args.handleOn
    /\ args.handler
    /\ values["a"] = AtomSlot("C")
    /\ errors["a"].kind = "seq"

\* C32: when a change event on a bound field makes the component call the
\* validator, the parsed values the validator is called with hold, for that
\* field, the value the event entered.
C32_ValidatorSeesEnteredValue ==
    [][\A f \in args.fields, v \in args.writes :
          (/\ last'.op = "onChange"
           /\ last'.field = f
           /\ IndexHandleChange(f, v)
           /\ calls' = <<[name |-> f, value |-> v]>>) =>
              indexGetValue(Store', f) = AtomView(v)]_vars

\* C33: when the validator rejects, the settling step leaves the error map as it
\* was and isValidating false; the submit that awaited it ends without invoking
\* a callback, with isSubmitting false and submitCount one higher.
C33_RejectedValidationLeavesErrors ==
    [][/\ (last'.op = "validated" /\ last'.threw) =>
            /\ errors' = errors
            /\ ~isValidating'
            /\ last'.callback = "none"
       /\ (last'.op = "submitEnd" /\ last'.validation = "rejected") =>
            /\ last'.callback = "none"
            /\ errors' = errors
            /\ ~isSubmitting'
            /\ submitCount' = submitCount + 1]_vars

\* A submit whose validation was rejected has ended, on a form that has a
\* handler for submits and no error in its map.
C33_Witness ==
    /\ last.op = "submitEnd"
    /\ last.validation = "rejected"
    /\ args.handler
    /\ "onSubmit" \in args.handleOn
    /\ isValid(errors)
    /\ submitCount = 1

\* C34: the form is dirty exactly when getFieldState reports some field dirty,
\* and pristine exactly when it reports every field pristine.
C34_FormDirtyIffSomeFieldDirty ==
    /\ isDirty(Store) <=> \E f \in Fields : getFieldState(Store, f).isDirty
    /\ isPristine(Store) <=> \A f \in Fields : getFieldState(Store, f).isPristine

\* C35: when rollbackInvalid goes on after its validation, every bound field
\* with an error in the map reads as its snapshot value afterwards and, unless
\* keepError, has no error left, so that the form is valid; a field without an
\* error keeps its value and its dirty flag.
C35_RollbackInvalidRestoresInvalidFields ==
    [][last'.op = "rolledBackInvalid" =>
          \A f \in args.fields :
              IF ~isEmptyEntry(Entry(errors, f))
              THEN /\ getValue(Store', f) = getDefaultValue(Store', f)
                   /\ ~KeepsError(Head(resuming)) =>
                         isEmptyEntry(Entry(errors', f)) /\ isValid(errors')
              ELSE /\ getValue(Store', f) = getValue(Store, f)
                   /\ dirtyFields'[f] = dirtyFields[f]]_vars

\* C36: the settling of one validator call leaves isValidating true as long as
\* another validate call is still waiting for the validator.
C36_SettlingKeepsValidatingWhileOthersWait ==
    [][(last'.op = "validated" /\ calls' # <<>>) => isValidating']_vars

\* C37: once a submit attempt has been counted, an element bound before it has
\* the listener of every blur or focus event listed in revalidateOn, and a blur
\* or focus event on it calls the validator exactly when its type is in
\* revalidateOn.
C37_RevalidateListenersPresentAfterSubmit ==
    [][/\ \A f \in args.fields :
             (submitCount' > 0 /\ parsers'[f].registered /\ ~listeners'[f].torn) =>
                 /\ "onBlur" \in args.revalidateOn => "blur" \in listeners'[f].attached
                 /\ "onFocus" \in args.revalidateOn =>
                        "focusin" \in listeners'[f].attached
       /\ (/\ last'.op \in {"onBlur", "onFocus"}
           /\ last' # last
           /\ submitCount > 0
           /\ args.validator) =>
              (Len(calls') = Len(calls) + 1 <=> last'.op \in args.revalidateOn)]_vars

\* C37 witness: a blur event, listed in revalidateOn only, has called the
\* validator on an element bound before the first submit.
C37_Witness ==
    /\ last.op = "onBlur"
    /\ submitCount > 0
    /\ "onBlur" \in args.revalidateOn \ args.validateOn
    /\ "onBlur" \notin args.handleOn \cup args.callbacks
    /\ calls # <<>>
    /\ calls[Len(calls)].field = last.field

\* C38: the submit count never goes down and isSubmitSuccessful, once set, is
\* never unset again; a rollback of the whole form resets isSubmitted and leaves
\* the submit count alone; so from the first counted submit on, whatever happens,
\* an event type validates exactly when it is in revalidateOn.
C38_RevalidatePolicyIsPermanent ==
    [][/\ submitCount' >= submitCount
       /\ isSubmitSuccessful # "unset" => isSubmitSuccessful' # "unset"
       /\ (/\ last'.op = "rollback"
           /\ last'.field = NoField
           /\ \E keepError, keepDirty \in BOOLEAN :
                 Rollback(NoField, keepError, keepDirty, Undefined)) =>
              /\ ~isSubmitted'
              /\ submitCount' = submitCount
       /\ submitCount > 0 =>
              \A e \in EventTypes \cup {"onSubmit"} :
                  shouldValidateOrRevalidate(e)' <=> e \in args.revalidateOn]_vars

\* C38 witness: the whole form was rolled back after a counted submit that set
\* isSubmitSuccessful, and the trigger lists differ.
C38_Witness ==
    /\ last.op = "rollback"
    /\ last.field = NoField
    /\ submitCount > 0
    /\ ~isSubmitted
    /\ isSubmitSuccessful # "unset"
    /\ args.validateOn # args.revalidateOn

\* C39: a blur or a focus event, and a setValue without shouldDirty, write the
\* value and leave every entry of the dirty set as it was; a change event
\* leaves an entry for its field.
C39_OnlyChangeEventsTouchDirtySet ==
    [][\A f \in args.fields, v \in args.writes :
          /\ (/\ last'.field = f
              /\ \/ last'.op = "onBlur" /\ OnBlur(f, v)
                 \/ last'.op = "onFocus" /\ OnFocus(f, v)
                 \/ /\ last'.op = "setValue"
                    /\ \E shouldValidate \in BOOLEAN :
                          SetValue(f, v, shouldValidate, FALSE)) =>
                 /\ dirtyFields' = dirtyFields
                 /\ values'[f] = AtomSlot(v)
          /\ (last'.op = "onChange" /\ last'.field = f /\ OnChange(f, v)) =>
                 dirtyFields'[f] \in {"true", "false"}]_vars

\* C39 witness: a blur event has written a value that differs from the default
\* value of its field, and the field has no entry in the dirty set.
C39_Witness ==
    /\ last.op = "onBlur"
    /\ last.field \in args.fields
    /\ getValue(Store, last.field) # getDefaultValue(Store, last.field)
    /\ dirtyFields[last.field] = "absent"

\* The operations that are said to leave the snapshot alone.
SnapshotKeepingOps ==
    {"setValue", "onChange", "onBlur", "onFocus", "continue", "validate", "validated",
     "submit", "submitEnd", "setError", "clearError", "clearErrors"}

\* C40: setValue, the event handlers, validate, submit, setError, clearError,
\* clearErrors and a rollback without defaultValue, of one field or of the whole
\* form, leave getDefaultValue(g) as it was for every field g.
C40_SnapshotChangedOnlyByDefaultValueAndUnregister ==
    [][(\/ last'.op \in SnapshotKeepingOps
        \/ /\ last'.op = "rollback"
           /\ \E f \in Fields \cup {NoField}, keepError, keepDirty \in BOOLEAN :
                 Rollback(f, keepError, keepDirty, Undefined)) =>
          \A g \in Fields : getDefaultValue(Store', g) = getDefaultValue(Store, g)]_vars

============================================================================
